---- MODULE Spec2Model ----
(***************************************************************************)
(* Tic-Tac-Toe with a minimax computer opponent (src/script.js).           *)
(*                                                                         *)
(* The session state of class TicTacToe is modelled together with the      *)
(* queue of setTimeout callbacks that handleCellClick schedules for the    *)
(* computer's reply.  Rendering (cells, modal, status text) is left out,   *)
(* except for the result object that handleGameEnd reports.                *)
(***************************************************************************)
EXTENDS Integers, Sequences, FiniteSets, TLC

(***************************************************************************)
(* Bounds.                                                                 *)
(***************************************************************************)
\* largest number of computer-move callbacks pending at the same time
MaxPending == 1
\* the same, in the behaviours that record the callbacks' history
MaxTracked == 1
\* largest number of empty cells of a board on which a call of minimax is
\* followed step by step
MaxSearchEmpty == 3

(***************************************************************************)
(* Constants of the constructor (script.js 6-19).                          *)
(***************************************************************************)
humanPlayer == "X"
aiPlayer == "O"
Players == {"X", "O"}
Marks == {"", "X", "O"}
Modes == {"pvp", "pvc"}
Cells == 0..8

winningConditions ==
    << <<0, 1, 2>>, <<3, 4, 5>>, <<6, 7, 8>>,
       <<0, 3, 6>>, <<1, 4, 7>>, <<2, 5, 8>>,
       <<0, 4, 8>>, <<2, 4, 6>> >>

\* Array(9).fill('')
EmptyBoard == [i \in Cells |-> ""]

\* the value of a result that carries no index / of checkResult's null
NoIndex == -1
NoResult == [winner |-> "none", line |-> <<>>]

(***************************************************************************)
(* Pure helpers.                                                           *)
(***************************************************************************)
\* checkWinState(board, player): some line holds three marks of player
checkWinState(b, player) ==
    \E i \in 1..Len(winningConditions) :
        LET w == winningConditions[i]
        IN  b[w[1]] = player /\ b[w[2]] = player /\ b[w[3]] = player

\* newBoard.map(...).filter(...): the empty cells in ascending order
RECURSIVE SpotsFrom(_, _)
SpotsFrom(b, i) ==
    IF i > 8 THEN <<>>
    ELSE IF b[i] = "" THEN <<i>> \o SpotsFrom(b, i + 1)
    ELSE SpotsFrom(b, i + 1)

AvailSpots(b) == SpotsFrom(b, 0)

\* checkResult's loop stopping after the rows (i < 3 for i < length)
RECURSIVE FirstLineRowsOnly(_, _)
FirstLineRowsOnly(b, i) ==
    IF i > 3 THEN <<>>
    ELSE LET w == winningConditions[i]
         IN  IF b[w[1]] = "" \/ b[w[2]] = "" \/ b[w[3]] = ""
             THEN FirstLineRowsOnly(b, i + 1)
             ELSE IF b[w[1]] = b[w[2]] /\ b[w[2]] = b[w[3]]
                  THEN w
                  ELSE FirstLineRowsOnly(b, i + 1)

\* the loop of checkResult: the first line whose three cells are non-empty
\* and equal, or <<>>
RECURSIVE FirstLine(_, _)
FirstLine(b, i) ==
    IF i > Len(winningConditions) THEN <<>>
    ELSE LET w == winningConditions[i]
         IN  IF b[w[1]] = "" \/ b[w[2]] = "" \/ b[w[3]] = ""
             THEN FirstLine(b, i + 1)
             ELSE IF b[w[1]] = b[w[2]] /\ b[w[2]] = b[w[3]]
                  THEN w
                  ELSE FirstLine(b, i + 1)

\* checkResult testing for the full board (line 125) before the lines
checkResultDrawFirst(b, cur) ==
    LET winningLine == FirstLine(b, 1)
    IN  IF \A i \in Cells : b[i] # ""
        THEN [winner |-> "Draw", line |-> <<>>]
        ELSE IF winningLine # <<>>
             THEN [winner |-> cur, line |-> winningLine]
             ELSE NoResult

\* checkResult(): reads this.board and this.currentPlayer
checkResult(b, cur) ==
    LET winningLine == FirstLine(b, 1)
    IN  IF winningLine # <<>>
        THEN [winner |-> cur, line |-> winningLine]
        ELSE IF \A i \in Cells : b[i] # ""
             THEN [winner |-> "Draw", line |-> <<>>]
             ELSE NoResult

(***************************************************************************)
(* Minimax (script.js 204-264).                                            *)
(*                                                                         *)
(* minimax works in place on the array it is given, which at the top level *)
(* is this.board itself; a call's result is therefore modelled as the      *)
(* returned move {index, score} together with the array as the call leaves *)
(* it.  The recursion is evaluated once per (board, player) pair: Level(k) *)
(* holds the results of the calls on boards with at most k empty cells,    *)
(* computed from Level(k-1) exactly as the code computes a call from its   *)
(* recursive calls.                                                        *)
(***************************************************************************)
MarkDigit(m) == IF m = "" THEN 0 ELSE IF m = "X" THEN 1 ELSE 2
DigitMark(d) == IF d = 0 THEN "" ELSE IF d = 1 THEN "X" ELSE "O"

Pow3 == <<1, 3, 9, 27, 81, 243, 729, 2187, 6561>>

RECURSIVE CodeFrom(_, _)
CodeFrom(b, i) ==
    IF i > 8 THEN 0 ELSE MarkDigit(b[i]) * Pow3[i + 1] + CodeFrom(b, i + 1)

\* position of the call minimax(b, player) in a table of results
Key(b, player) == 2 * CodeFrom(b, 0) + (IF player = "X" THEN 1 ELSE 2)
KeyBoard(key) == [i \in Cells |-> DigitMark((((key - 1) \div 2) \div Pow3[i + 1]) % 3)]
KeyPlayer(key) == IF key % 2 = 1 THEN "X" ELSE "O"
NumKeys == 39366

\* the loop of lines 220-241 without line 238
RECURSIVE TryMovesNoUndo(_, _, _, _, _, _)
TryMovesNoUndo(newBoard, player, availSpots, i, moves, sub) ==
    IF i > Len(availSpots)
    THEN [moves |-> moves, board |-> newBoard]
    ELSE LET spot == availSpots[i]
             tried == [newBoard EXCEPT ![spot] = player]
             subResult == IF player = aiPlayer
                          THEN sub[Key(tried, humanPlayer)]
                          ELSE sub[Key(tried, aiPlayer)]
         IN  TryMovesNoUndo(subResult.board, player, availSpots, i + 1,
                            Append(moves, [index |-> spot, score |-> subResult.score]), sub)

\* lines 220-241: try every spot of availSpots from position i on; sub holds
\* the results of the recursive calls
RECURSIVE TryMoves(_, _, _, _, _, _)
TryMoves(newBoard, player, availSpots, i, moves, sub) ==
    IF i > Len(availSpots)
    THEN [moves |-> moves, board |-> newBoard]
    ELSE LET spot == availSpots[i]
             tried == [newBoard EXCEPT ![spot] = player]
             subResult == IF player = aiPlayer
                          THEN sub[Key(tried, humanPlayer)]
                          ELSE sub[Key(tried, aiPlayer)]
         IN  TryMoves([subResult.board EXCEPT ![spot] = ""], player, availSpots,
                      i + 1,
                      Append(moves, [index |-> spot, score |-> subResult.score]),
                      sub)

\* the scans of lines 247-260 comparing with >= and <=
RECURSIVE ScanMovesLastBest(_, _, _, _, _)
ScanMovesLastBest(moves, player, i, bestScore, bestMove) ==
    IF i > Len(moves) THEN bestMove
    ELSE IF player = aiPlayer
         THEN IF moves[i].score >= bestScore
              THEN ScanMovesLastBest(moves, player, i + 1, moves[i].score, i)
              ELSE ScanMovesLastBest(moves, player, i + 1, bestScore, bestMove)
         ELSE IF moves[i].score <= bestScore
              THEN ScanMovesLastBest(moves, player, i + 1, moves[i].score, i)
              ELSE ScanMovesLastBest(moves, player, i + 1, bestScore, bestMove)

\* lines 243-261: position in moves of the first move with the highest
\* (computer) or the lowest (human) score
RECURSIVE ScanMoves(_, _, _, _, _)
ScanMoves(moves, player, i, bestScore, bestMove) ==
    IF i > Len(moves) THEN bestMove
    ELSE IF player = aiPlayer
         THEN IF moves[i].score > bestScore
              THEN ScanMoves(moves, player, i + 1, moves[i].score, i)
              ELSE ScanMoves(moves, player, i + 1, bestScore, bestMove)
         ELSE IF moves[i].score < bestScore
              THEN ScanMoves(moves, player, i + 1, moves[i].score, i)
              ELSE ScanMoves(moves, player, i + 1, bestScore, bestMove)

\* the selection taking the lowest score for either player
BestMoveAlwaysLowest(moves, player) ==
    ScanMoves(moves, humanPlayer, 1, 10000, 0)

BestMove(moves, player) ==
    ScanMoves(moves, player, 1, IF player = aiPlayer THEN -10000 ELSE 10000, 0)

\* minimax returning the position in moves instead of moves[bestMove]
minimaxCallReturnsPosition(newBoard, player, sub) ==
    LET availSpots == AvailSpots(newBoard)
    IN  IF checkWinState(newBoard, humanPlayer)
        THEN [score |-> -10, index |-> NoIndex, board |-> newBoard]
        ELSE IF checkWinState(newBoard, aiPlayer)
        THEN [score |-> 10, index |-> NoIndex, board |-> newBoard]
        ELSE IF Len(availSpots) = 0
        THEN [score |-> 0, index |-> NoIndex, board |-> newBoard]
        ELSE LET tried == TryMoves(newBoard, player, availSpots, 1, <<>>, sub)
                 bestMove == BestMove(tried.moves, player)
             IN  [score |-> tried.moves[bestMove].score, index |-> bestMove - 1,
                  board |-> tried.board]

\* minimax scoring a completed line of the computer 0 (line 212)
minimaxCallComputerWinScoresZero(newBoard, player, sub) ==
    LET availSpots == AvailSpots(newBoard)
    IN  IF checkWinState(newBoard, humanPlayer)
        THEN [score |-> -10, index |-> NoIndex, board |-> newBoard]
        ELSE IF checkWinState(newBoard, aiPlayer)
        THEN [score |-> 0, index |-> NoIndex, board |-> newBoard]
        ELSE IF Len(availSpots) = 0
        THEN [score |-> 0, index |-> NoIndex, board |-> newBoard]
        ELSE LET tried == TryMoves(newBoard, player, availSpots, 1, <<>>, sub)
                 best == tried.moves[BestMove(tried.moves, player)]
             IN  [score |-> best.score, index |-> best.index, board |-> tried.board]

\* one call of minimax, given the results sub of the calls it makes
minimaxCall(newBoard, player, sub) ==
    LET availSpots == AvailSpots(newBoard)
    IN  IF checkWinState(newBoard, humanPlayer)
        THEN [score |-> -10, index |-> NoIndex, board |-> newBoard]
        ELSE IF checkWinState(newBoard, aiPlayer)
        THEN [score |-> 10, index |-> NoIndex, board |-> newBoard]
        ELSE IF Len(availSpots) = 0
        THEN [score |-> 0, index |-> NoIndex, board |-> newBoard]
        ELSE LET tried == TryMoves(newBoard, player, availSpots, 1, <<>>, sub)
                 best == tried.moves[BestMove(tried.moves, player)]
             IN  [score |-> best.score, index |-> best.index, board |-> tried.board]

NotComputed == [score |-> 0, index |-> NoIndex, board |-> EmptyBoard]

\* the board of every table position, and its number of empty cells
RECURSIVE BoardRange(_, _)
BoardRange(lo, hi) ==
    IF lo = hi THEN <<KeyBoard(lo)>>
    ELSE LET mid == (lo + hi) \div 2
         IN  BoardRange(lo, mid) \o BoardRange(mid + 1, hi)

KeyBoards == BoardRange(1, NumKeys)

RECURSIVE EmptyRange(_, _)
EmptyRange(lo, hi) ==
    IF lo = hi THEN <<Len(AvailSpots(KeyBoards[lo]))>>
    ELSE LET mid == (lo + hi) \div 2
         IN  EmptyRange(lo, mid) \o EmptyRange(mid + 1, hi)

KeyEmpty == EmptyRange(1, NumKeys)

\* the table entry of position key at level k
LevelEntry(key, k, prev) ==
    IF KeyEmpty[key] < k THEN prev[key]
    ELSE IF KeyEmpty[key] = k
         THEN minimaxCall(KeyBoards[key], KeyPlayer(key), prev)
         ELSE NotComputed

\* the entries of positions lo..hi, as a sequence
RECURSIVE LevelRange(_, _, _, _)
LevelRange(lo, hi, k, prev) ==
    IF lo = hi THEN <<LevelEntry(lo, k, prev)>>
    ELSE LET mid == (lo + hi) \div 2
         IN  LevelRange(lo, mid, k, prev) \o LevelRange(mid + 1, hi, k, prev)

Level(k, prev) == LevelRange(1, NumKeys, k, prev)

Level0 == Level(0, <<>>)
Level1 == Level(1, Level0)
Level2 == Level(2, Level1)
Level3 == Level(3, Level2)
Level4 == Level(4, Level3)
Level5 == Level(5, Level4)
Level6 == Level(6, Level5)
Level7 == Level(7, Level6)
Level8 == Level(8, Level7)
Level9 == Level(9, Level8)

\* minimax(newBoard, player)
minimax(newBoard, player) == Level9[Key(newBoard, player)]

(***************************************************************************)
(* State.                                                                  *)
(***************************************************************************)
VARIABLES
    board,          \* this.board
    currentPlayer,  \* this.currentPlayer
    isGameActive,   \* this.isGameActive
    gameMode,       \* this.gameMode
    result,         \* the result handleGameEnd reported for the current game
    timers,         \* pending setTimeout(() => this.makeAiMove(), 500) callbacks
                    \* in firing order (equal delays fire in scheduling order)
    outOfTurn,      \* history: since the last resetGame the computer has
                    \* placed a mark while it was not the player to move
    lastEvent,      \* history: the handler that ran last
    history,        \* which history a behaviour records: "events" (lastEvent)
                    \* or "callbacks" (with every pending callback, the move
                    \* minimax returns for the board that scheduled it)
    searchArgs,     \* the arguments (newBoard, player) of a call of minimax
                    \* made on its own, outside a session
    searchReturn,   \* what that call returned, and newBoard as it left it
    scratch,        \* the array newBoard of a call of minimax followed step
                    \* by step, shared by all its recursive calls
    callStack,      \* the invocations of minimax that are in their loop
                    \* (lines 220-241), the innermost last
    callee,         \* the player argument of the invocation being entered,
                    \* or "none"
    retValue        \* the value the invocation that ended last has returned
                    \* to its caller and the caller has yet to read

vars == <<board, currentPlayer, isGameActive, gameMode, result, timers,
          outOfTurn, lastEvent, history, searchArgs, searchReturn,
          scratch, callStack, callee, retValue>>

\* a call of minimax on its own
search == <<searchArgs, searchReturn, scratch, callStack, callee, retValue>>
NoArgs == [board |-> EmptyBoard, player |-> aiPlayer]
NoReturn == [index |-> NoIndex, score |-> 0, board |-> EmptyBoard, returned |-> FALSE]

\* no value waiting to be read by a caller
NoValue == [score |-> 0, index |-> NoIndex, pending |-> FALSE]

\* no call of minimax is being followed step by step
NoSteps ==
    /\ scratch = EmptyBoard
    /\ callStack = <<>>
    /\ callee = "none"
    /\ retValue = NoValue

\* the session state proper
session == <<board, currentPlayer, isGameActive, gameMode, timers>>

Event(op, index, accepted) ==
    IF history = "events"
    THEN [op |-> op, index |-> index, accepted |-> accepted]
    ELSE lastEvent

\* the callback scheduled by the click that left the board as b
Callback(b) ==
    IF history = "callbacks"
    THEN [expected |-> minimax(b, aiPlayer).index]
    ELSE [expected |-> NoIndex]

\* the state the constructor leaves
Constructed ==
    /\ board = EmptyBoard
    /\ currentPlayer = "X"
    /\ isGameActive = TRUE
    /\ gameMode = "pvp"
    /\ result = NoResult
    /\ timers = <<>>
    /\ outOfTurn = FALSE
    /\ lastEvent = [op |-> "init", index |-> NoIndex, accepted |-> TRUE]

Init ==
    /\ Constructed
    /\ history = "events"
    /\ searchArgs = NoArgs
    /\ searchReturn = NoReturn
    /\ NoSteps

InitDelay ==
    /\ Constructed
    /\ history = "callbacks"
    /\ searchArgs = NoArgs
    /\ searchReturn = NoReturn
    /\ NoSteps

\* a call of minimax about to be made on any board, for either player
InitSearch ==
    /\ Constructed
    /\ history = "events"
    /\ searchArgs \in [board : [Cells -> Marks], player : Players]
    /\ searchReturn = NoReturn
    /\ NoSteps

(***************************************************************************)
(* Operations.                                                             *)
(***************************************************************************)
\* makeMove with a handleGameEnd that leaves isGameActive alone (line 133)
makeMoveKeepsActive(b, index, player) ==
    LET placed == [b EXCEPT ![index] = player]
        res == checkResult(placed, currentPlayer)
    IN  IF res # NoResult
        THEN [board |-> placed, currentPlayer |-> currentPlayer,
              isGameActive |-> isGameActive, result |-> res]
        ELSE [board |-> placed,
              currentPlayer |-> IF currentPlayer = "X" THEN "O" ELSE "X",
              isGameActive |-> isGameActive, result |-> result]

\* makeMove(index, player) on the board b that this.board holds when it is
\* called: the board, player to move, active flag and reported result after
makeMove(b, index, player) ==
    LET placed == [b EXCEPT ![index] = player]
        res == checkResult(placed, currentPlayer)
    IN  IF res # NoResult
        THEN \* handleGameEnd(result)
             [board |-> placed, currentPlayer |-> currentPlayer,
              isGameActive |-> FALSE, result |-> res]
        ELSE [board |-> placed,
              currentPlayer |-> IF currentPlayer = "X" THEN "O" ELSE "X",
              isGameActive |-> isGameActive, result |-> result]

\* handleCellClick without the test of isGameActive (line 64)
ClickRejectedNoActiveGuard(i) ==
    \/ board[i] # ""
    \/ gameMode = "pvc" /\ currentPlayer = aiPlayer

\* handleCellClick without the guard of lines 69-71
ClickRejectedNoTurnGuard(i) ==
    \/ board[i] # ""
    \/ ~isGameActive

\* the guards of handleCellClick (lines 64-71)
ClickRejected(i) ==
    \/ board[i] # ""
    \/ ~isGameActive
    \/ gameMode = "pvc" /\ currentPlayer = aiPlayer

\* the number of callbacks a behaviour may have pending
PendingBound == IF history = "callbacks" THEN MaxTracked ELSE MaxPending

\* handleCellClick(e) with data-index i
handleCellClick(i) ==
    IF ClickRejected(i)
    THEN /\ lastEvent' = Event("click", i, FALSE)
         /\ UNCHANGED <<board, currentPlayer, isGameActive, gameMode, result,
                        timers, outOfTurn, history, search>>
    ELSE LET m == makeMove(board, i, currentPlayer)
         IN  /\ board' = m.board
             /\ currentPlayer' = m.currentPlayer
             /\ isGameActive' = m.isGameActive
             /\ result' = m.result
             /\ timers' = IF m.isGameActive /\ gameMode = "pvc"
                             /\ m.currentPlayer = aiPlayer
                          THEN Append(timers, Callback(m.board))
                          ELSE timers
             /\ Len(timers') <= PendingBound
             /\ lastEvent' = Event("click", i, TRUE)
             /\ UNCHANGED <<gameMode, outOfTurn, history, search>>

\* resetGame without line 165
resetGameKeepsActiveFlag ==
    /\ board' = EmptyBoard
    /\ currentPlayer' = "X"
    /\ result' = NoResult
    /\ outOfTurn' = FALSE
    /\ UNCHANGED isGameActive

\* resetGame without line 166
resetGameKeepsPlayer ==
    /\ board' = EmptyBoard
    /\ isGameActive' = TRUE
    /\ result' = NoResult
    /\ outOfTurn' = FALSE
    /\ UNCHANGED currentPlayer

\* resetGame(): the session fields it assigns
resetGame ==
    /\ board' = EmptyBoard
    /\ isGameActive' = TRUE
    /\ currentPlayer' = "X"
    /\ result' = NoResult
    /\ outOfTurn' = FALSE

\* the reset button, and the new-game button of the modal
ResetClick ==
    /\ resetGame
    /\ lastEvent' = Event("reset", NoIndex, TRUE)
    /\ UNCHANGED <<gameMode, timers, history, search>>

\* setMode(mode)
setMode(mode) ==
    IF gameMode = mode
    THEN /\ lastEvent' = Event("setMode", NoIndex, FALSE)
         /\ UNCHANGED <<board, currentPlayer, isGameActive, gameMode, result,
                        timers, outOfTurn, history, search>>
    ELSE /\ gameMode' = mode
         /\ resetGame
         /\ lastEvent' = Event("setMode", NoIndex, TRUE)
         /\ UNCHANGED <<timers, history, search>>

\* the oldest pending callback fires: makeAiMove()
makeAiMove ==
    /\ timers # <<>>
    /\ timers' = Tail(timers)
    /\ UNCHANGED <<gameMode, history, search>>
    /\ IF ~isGameActive
       THEN /\ lastEvent' = Event("aiMove", NoIndex, FALSE)
            /\ UNCHANGED <<board, currentPlayer, isGameActive, result, outOfTurn>>
       ELSE LET best == minimax(board, aiPlayer)
            IN  IF best.index = NoIndex
                THEN \* makeMove(undefined, ...) throws before any cell changes
                     /\ board' = best.board
                     /\ lastEvent' = Event("aiMove", NoIndex, FALSE)
                     /\ UNCHANGED <<currentPlayer, isGameActive, result, outOfTurn>>
                ELSE LET m == makeMove(best.board, best.index, aiPlayer)
                     IN  /\ board' = m.board
                         /\ currentPlayer' = m.currentPlayer
                         /\ isGameActive' = m.isGameActive
                         /\ result' = m.result
                         /\ outOfTurn' = (outOfTurn \/ currentPlayer # aiPlayer)
                         /\ lastEvent' = Event("aiMove", best.index, TRUE)

Next ==
    \/ \E i \in Cells : handleCellClick(i)
    \/ ResetClick
    \/ \E mode \in Modes : setMode(mode)
    \/ makeAiMove

Spec == Init /\ [][Next]_vars

\* the same program, recording the callbacks' history
SpecDelay == InitDelay /\ [][Next]_vars

\* the call minimax(newBoard, player) with the arguments searchArgs
callMinimax ==
    /\ ~searchReturn.returned
    /\ LET r == minimax(searchArgs.board, searchArgs.player)
       IN  searchReturn' = [index |-> r.index, score |-> r.score,
                            board |-> r.board, returned |-> TRUE]
    /\ UNCHANGED <<board, currentPlayer, isGameActive, gameMode, result,
                   timers, outOfTurn, lastEvent, history, searchArgs,
                   scratch, callStack, callee, retValue>>

SearchNext == callMinimax

\* minimax as a function of its arguments
SearchSpec == InitSearch /\ [][SearchNext]_vars

(***************************************************************************)
(* One call of minimax followed step by step (script.js 204-264): every    *)
(* invocation is entered, tries its spots one after the other, calling     *)
(* minimax for each, and returns.  All invocations work on the one array   *)
(* newBoard.                                                               *)
(***************************************************************************)
\* the boards a game played in turn can show, with few empty cells
StepBoards ==
    {b \in [Cells -> Marks] :
        /\ Cardinality({i \in Cells : b[i] = ""}) <= MaxSearchEmpty
        /\ Cardinality({i \in Cells : b[i] = "X"})
              - Cardinality({i \in Cells : b[i] = "O"}) \in {0, 1}}

\* a call of minimax about to be entered
InitSteps ==
    /\ Constructed
    /\ history = "events"
    /\ searchArgs \in [board : StepBoards, player : Players]
    /\ searchReturn = NoReturn
    /\ scratch = searchArgs.board
    /\ callStack = <<>>
    /\ callee = searchArgs.player
    /\ retValue = NoValue

\* the invocation in its loop that was entered last
TopCall == callStack[Len(callStack)]

\* lines 204-218: an invocation is entered; it returns a score at once or
\* starts its loop
minimaxEnter ==
    /\ callee # "none"
    /\ callee' = "none"
    /\ LET availSpots == AvailSpots(scratch)
       IN  IF checkWinState(scratch, humanPlayer)
           THEN /\ retValue' = [score |-> -10, index |-> NoIndex, pending |-> TRUE]
                /\ UNCHANGED callStack
           ELSE IF checkWinState(scratch, aiPlayer)
           THEN /\ retValue' = [score |-> 10, index |-> NoIndex, pending |-> TRUE]
                /\ UNCHANGED callStack
           ELSE IF Len(availSpots) = 0
           THEN /\ retValue' = [score |-> 0, index |-> NoIndex, pending |-> TRUE]
                /\ UNCHANGED callStack
           ELSE /\ callStack' = Append(callStack,
                                       [player |-> callee, availSpots |-> availSpots,
                                        i |-> 1, moves |-> <<>>])
                /\ UNCHANGED retValue
    /\ UNCHANGED <<board, currentPlayer, isGameActive, gameMode, result,
                   timers, outOfTurn, lastEvent, history, searchArgs,
                   searchReturn, scratch>>

\* lines 220-233: the innermost invocation marks its next spot and calls
\* minimax for the other player
minimaxTry ==
    /\ callee = "none"
    /\ ~retValue.pending
    /\ callStack # <<>>
    /\ TopCall.i <= Len(TopCall.availSpots)
    /\ scratch' = [scratch EXCEPT ![TopCall.availSpots[TopCall.i]] = TopCall.player]
    /\ callee' = IF TopCall.player = aiPlayer THEN humanPlayer ELSE aiPlayer
    /\ UNCHANGED <<board, currentPlayer, isGameActive, gameMode, result,
                   timers, outOfTurn, lastEvent, history, searchArgs,
                   searchReturn, callStack, retValue>>

\* the step of minimaxUndo without line 238
minimaxUndoKeepsMark ==
    /\ retValue.pending
    /\ callStack # <<>>
    /\ callStack' = [callStack EXCEPT ![Len(callStack)] =
                        [@ EXCEPT !.i = @ + 1,
                                  !.moves = Append(@, [index |-> TopCall.availSpots[TopCall.i],
                                                       score |-> retValue.score])]]
    /\ retValue' = NoValue
    /\ UNCHANGED <<board, currentPlayer, isGameActive, gameMode, result,
                   timers, outOfTurn, lastEvent, history, searchArgs,
                   searchReturn, callee, scratch>>

\* lines 230/234, 238, 240: the innermost invocation reads the score its
\* call returned, removes its mark and records the move
minimaxUndo ==
    /\ retValue.pending
    /\ callStack # <<>>
    /\ scratch' = [scratch EXCEPT ![TopCall.availSpots[TopCall.i]] = ""]
    /\ callStack' = [callStack EXCEPT ![Len(callStack)] =
                        [@ EXCEPT !.i = @ + 1,
                                  !.moves = Append(@, [index |-> TopCall.availSpots[TopCall.i],
                                                       score |-> retValue.score])]]
    /\ retValue' = NoValue
    /\ UNCHANGED <<board, currentPlayer, isGameActive, gameMode, result,
                   timers, outOfTurn, lastEvent, history, searchArgs,
                   searchReturn, callee>>

\* lines 243-263: the innermost invocation has tried all its spots, picks
\* its best move and returns it
minimaxChoose ==
    /\ callee = "none"
    /\ ~retValue.pending
    /\ callStack # <<>>
    /\ TopCall.i > Len(TopCall.availSpots)
    /\ LET best == TopCall.moves[BestMove(TopCall.moves, TopCall.player)]
       IN  retValue' = [score |-> best.score, index |-> best.index, pending |-> TRUE]
    /\ callStack' = SubSeq(callStack, 1, Len(callStack) - 1)
    /\ UNCHANGED <<board, currentPlayer, isGameActive, gameMode, result,
                   timers, outOfTurn, lastEvent, history, searchArgs,
                   searchReturn, callee, scratch>>

\* the outermost invocation has returned to the caller of the search
searchDone ==
    /\ retValue.pending
    /\ callStack = <<>>
    /\ ~searchReturn.returned
    /\ searchReturn' = [index |-> retValue.index, score |-> retValue.score,
                        board |-> scratch, returned |-> TRUE]
    /\ retValue' = NoValue
    /\ UNCHANGED <<board, currentPlayer, isGameActive, gameMode, result,
                   timers, outOfTurn, lastEvent, history, searchArgs,
                   scratch, callStack, callee>>

StepNext ==
    \/ minimaxEnter
    \/ minimaxTry
    \/ minimaxUndo
    \/ minimaxChoose
    \/ searchDone

\* a call of minimax step by step; it is synchronous code, which runs on
\* once it is started
StepSpec == InitSteps /\ [][StepNext]_vars /\ WF_vars(StepNext)

TypeOK ==
    /\ board \in [Cells -> Marks]
    /\ currentPlayer \in Players
    /\ isGameActive \in BOOLEAN
    /\ gameMode \in Modes
    /\ Len(timers) <= PendingBound

(***************************************************************************)
(* Properties.                                                             *)
(***************************************************************************)
Count(b, p) == Cardinality({i \in Cells : b[i] = p})

\* the outcome of a board: no line completed and a cell left
InProgress(b) ==
    /\ ~checkWinState(b, "X")
    /\ ~checkWinState(b, "O")
    /\ \E i \in Cells : b[i] = ""

\* C1: in every reachable state the numbers of X marks and of O marks on the
\* board differ by at most 1.
C1_MarkBalance ==
    /\ Count(board, "X") - Count(board, "O") <= 1
    /\ Count(board, "O") - Count(board, "X") <= 1

\* C2: in human-vs-computer mode, in a game in which the computer has only
\* moved in reply to a human move, the human never has a completed line, and
\* a finished game is reported as a draw or as a win of the computer.
C2_HumanNeverWins ==
    (gameMode = "pvc" /\ ~outOfTurn) =>
        /\ ~checkWinState(board, humanPlayer)
        /\ ~isGameActive => result.winner \in {"Draw", aiPlayer}

\* a human-vs-computer game played in turn has ended with a computer win
C2_Witness ==
    /\ gameMode = "pvc"
    /\ ~outOfTurn
    /\ ~isGameActive
    /\ result.winner = aiPlayer
    /\ checkWinState(board, aiPlayer)

\* C3: whenever a game ends with a win, the reported winner's mark occupies
\* all three cells of the reported winning line.
C3_WinnerOwnsLine ==
    result.winner \in Players =>
        \A k \in 1..3 : board[result.line[k]] = result.winner

\* C4: every computer move that is applied is the move minimax returns for
\* the board as it stood right after the human move that scheduled it.
C4_DelayedMoveAsScheduled ==
    [][(timers # <<>> /\ timers' = Tail(timers) /\ board' # board) =>
          /\ Head(timers).expected \in Cells
          /\ board[Head(timers).expected] = ""
          /\ board'[Head(timers).expected] = aiPlayer]_vars

\* C5: after an accepted move by player p that does not end the game, the
\* player to move is the opponent of p.
C5_TurnPasses ==
    (lastEvent.op \in {"click", "aiMove"} /\ lastEvent.accepted /\ isGameActive) =>
        currentPlayer # board[lastEvent.index]

\* the cases in which C6 says a click on cell i is rejected
C6_Rejects(i) ==
    \/ board[i] # ""
    \/ ~isGameActive
    \/ gameMode = "pvc" /\ currentPlayer = "O"

\* C6: a click on an occupied cell, in an inactive game or, in
\* human-vs-computer mode, on the computer's turn changes neither the board,
\* the player to move, the active flag, the mode nor the pending callbacks.
C6_RejectedClickNoChange ==
    [][(lastEvent'.op = "click" /\ C6_Rejects(lastEvent'.index)) =>
          (~lastEvent'.accepted /\ UNCHANGED <<session, result>>)]_vars

\* a click on an empty cell was just rejected because it is the computer's turn
C6_Witness ==
    /\ lastEvent.op = "click"
    /\ ~lastEvent.accepted
    /\ board[lastEvent.index] = ""
    /\ isGameActive
    /\ gameMode = "pvc"
    /\ currentPlayer = aiPlayer

\* C7: the game is active if and only if the board's outcome is InProgress.
C7_ActiveIffInProgress == isGameActive <=> InProgress(board)

\* a game has ended by a completed line and is inactive
C7_Witness == ~isGameActive /\ checkWinState(board, "X")

\* C8: no reachable board has a completed line for X and one for O.
C8_SingleWinner == ~(checkWinState(board, "X") /\ checkWinState(board, "O"))

\* a game has ended by a line of O on a board where X has three marks or more
C8_Witness == checkWinState(board, "O") /\ Count(board, "X") >= 3

\* C9: for every board with no completed line and an empty cell, the
\* top-level search (the computer to move) returns an index in 0..8 whose
\* cell is empty on that board.
C9_SelectsEmptyCell ==
    (searchReturn.returned /\ searchArgs.player = aiPlayer
        /\ InProgress(searchArgs.board)) =>
        /\ searchReturn.index \in Cells
        /\ searchArgs.board[searchReturn.index] = ""

\* the top-level search has returned on a board in progress with one empty
\* cell that is not the first cell
C9_Witness ==
    /\ searchReturn.returned
    /\ searchArgs.player = aiPlayer
    /\ InProgress(searchArgs.board)
    /\ Count(searchArgs.board, "") = 1
    /\ searchArgs.board[0] # ""

\* C10: when minimax returns, for whatever board and player it was called,
\* every cell of the board has the value it had when the call was entered,
\* and player to move, active flag and mode are as before.
C10_SearchRestoresBoard ==
    searchReturn.returned =>
        /\ searchReturn.board = searchArgs.board
        /\ currentPlayer = "X" /\ isGameActive /\ gameMode = "pvp"

\* a search that tried moves at several levels has returned
C10_Witness ==
    /\ searchReturn.returned
    /\ searchReturn.index \in Cells
    /\ Count(searchArgs.board, "") >= 4

\* placing p's mark on the empty cell i of b completes a line of p
WinsAt(b, i, p) == b[i] = "" /\ checkWinState([b EXCEPT ![i] = p], p)

\* the score minimax gives the computer's move to cell i of b (lines 225-230)
MoveScore(b, i) == minimax([b EXCEPT ![i] = aiPlayer], humanPlayer).score

\* the board on which the computer's move recorded in lastEvent was chosen:
\* makeAiMove places the mark on the board as minimax leaves it
BoardBeforeAiMove == [board EXCEPT ![lastEvent.index] = ""]

\* the computer has just moved on a board on which some empty cell completed
\* a line of its marks
AiMovedWithWinAtHand ==
    /\ lastEvent.op = "aiMove"
    /\ lastEvent.accepted
    /\ \E i \in Cells : WinsAt(BoardBeforeAiMove, i, aiPlayer)

\* the lowest cell of b that completes a line of the computer's marks
FirstWin(b) ==
    CHOOSE i \in Cells :
        /\ WinsAt(b, i, aiPlayer)
        /\ \A k \in Cells : WinsAt(b, k, aiPlayer) => i <= k

\* C11 as stated: whenever the computer is to move on a board in progress
\* and some empty cell would complete a line of the computer's marks, the
\* computer's move completes a line of its marks (here for the games played
\* in turn in human-vs-computer mode).
C11_TakesImmediateWin ==
    (AiMovedWithWinAtHand /\ gameMode = "pvc" /\ ~outOfTurn) =>
        checkWinState(board, aiPlayer)

\* C11, amended: in that case the computer's move either completes a line of
\* its marks or goes to an empty cell of lower index than every completing
\* cell whose score is +10 as well; it completes a line whenever no empty
\* cell below the first completing cell has score +10.
C11_TakesLowestForcedWin ==
    AiMovedWithWinAtHand =>
        LET b == BoardBeforeAiMove
            c == lastEvent.index
        IN  /\ \/ WinsAt(b, c, aiPlayer)
               \/ /\ MoveScore(b, c) = 10
                  /\ \A i \in Cells : WinsAt(b, i, aiPlayer) => c < i
            /\ (\A j \in 0..(FirstWin(b) - 1) : b[j] = "" => MoveScore(b, j) < 10)
                => c = FirstWin(b)

\* the computer, with a completing cell at hand, has moved to a lower cell
\* that completes no line
C11_Witness ==
    /\ AiMovedWithWinAtHand
    /\ gameMode = "pvc" /\ ~outOfTurn
    /\ ~checkWinState(board, aiPlayer)

\* C12: for every board in progress with the computer to move, the search
\* returns the lowest-index empty cell whose score is the maximum of the
\* scores of the empty cells, together with that score; on the empty board
\* it returns cell 0.
C12_LowestBestCell ==
    (/\ searchReturn.returned
     /\ searchArgs.player = aiPlayer
     /\ InProgress(searchArgs.board)) =>
        LET b == searchArgs.board
            c == searchReturn.index
        IN  /\ c \in Cells
            /\ b[c] = ""
            /\ searchReturn.score = MoveScore(b, c)
            /\ \A j \in Cells : b[j] = "" => MoveScore(b, j) <= MoveScore(b, c)
            /\ \A j \in 0..(c - 1) : b[j] = "" => MoveScore(b, j) < MoveScore(b, c)
            /\ b = EmptyBoard => c = 0

\* the search has returned on a board where a cell above the returned one
\* has the maximum score as well and a cell below it is empty
C12_Witness ==
    /\ searchReturn.returned
    /\ searchArgs.player = aiPlayer
    /\ InProgress(searchArgs.board)
    /\ searchReturn.index \in Cells
    /\ \E j \in Cells :
           /\ j > searchReturn.index
           /\ searchArgs.board[j] = ""
           /\ MoveScore(searchArgs.board, j) = searchReturn.score
    /\ \E j \in Cells : j < searchReturn.index /\ searchArgs.board[j] = ""

\* C13: right after the reset button (or the new-game button), or after a
\* switch to the other mode, all nine cells are empty, X is to move and the
\* game is active; selecting the mode already selected changes nothing.
C13_ResetReinitialises ==
    [][/\ (\/ lastEvent'.op = "reset"
           \/ lastEvent'.op = "setMode" /\ gameMode' # gameMode) =>
              (board' = EmptyBoard /\ currentPlayer' = "X" /\ isGameActive')
       /\ (lastEvent'.op = "setMode" /\ gameMode' = gameMode) =>
              UNCHANGED <<session, result>>]_vars

\* the mode was just switched to human-vs-human while a computer move was
\* pending, that is in the middle of a game
C13_Witness ==
    /\ lastEvent.op = "setMode"
    /\ lastEvent.accepted
    /\ gameMode = "pvp"
    /\ timers # <<>>
    /\ board = EmptyBoard /\ currentPlayer = "X" /\ isGameActive

\* every cell of b holds a mark
Full(b) == \A i \in Cells : b[i] # ""

\* some line of b is completed
SomeLine(b) == checkWinState(b, "X") \/ checkWinState(b, "O")

\* C14: the game is reported as a Draw exactly when the board is full with
\* no completed line, whatever the order in which the cells were filled; a
\* full board with a completed line is reported as a win.
C14_DrawIffFullNoLine ==
    /\ result.winner = "Draw" <=> (Full(board) /\ ~SomeLine(board))
    /\ (Full(board) /\ SomeLine(board)) => result.winner \in Players

\* a game has ended in a draw with the last mark placed in the first cell
C14_Witness ==
    /\ result.winner = "Draw"
    /\ Full(board)
    /\ ~isGameActive
    /\ lastEvent.op = "click" /\ lastEvent.accepted /\ lastEvent.index = 0

\* C15: in human-vs-computer mode, whenever the game is active and the
\* computer is the player to move, a computer move is pending.
C15_ComputerMovePending ==
    (gameMode = "pvc" /\ isGameActive /\ currentPlayer = aiPlayer) =>
        timers # <<>>

\* C16: the computer places a mark only from a state in which the mode is
\* human-vs-computer and the computer is the player to move.
C16_ComputerMovesOnItsTurn ==
    [][(lastEvent'.op = "aiMove" /\ lastEvent'.accepted) =>
          (gameMode = "pvc" /\ currentPlayer = aiPlayer)]_vars

\* C17: whenever a pending callback would call minimax (the game is active),
\* the board has no completed line and an empty cell, and the result of
\* minimax carries the index of a cell.
C17_SearchPrecondition ==
    (timers # <<>> /\ isGameActive) =>
        /\ InProgress(board)
        /\ minimax(board, aiPlayer).index \in Cells

\* a callback is pending in an active game with a single empty cell left
C17_Witness ==
    /\ timers # <<>>
    /\ isGameActive
    /\ Count(board, "") = 1

\* C18: once a game has ended, no step other than a reset or a mode switch
\* changes the board, the player to move or the active flag.
C18_EndedGameFrozen ==
    [][(~isGameActive /\ lastEvent'.op \notin {"reset", "setMode"}) =>
          UNCHANGED <<board, currentPlayer, isGameActive>>]_vars

\* a callback that was pending when the game ended has fired, on a board
\* with an empty cell left
C18_Witness ==
    /\ ~isGameActive
    /\ lastEvent.op = "aiMove"
    /\ ~lastEvent.accepted
    /\ \E i \in Cells : board[i] = ""

\* the invocations of minimax that have been entered and have not returned
ActiveCalls == Len(callStack) + (IF callee # "none" THEN 1 ELSE 0)

\* each invocation being entered finds one more mark than its caller found,
\* and the invocations nested in the outermost one are never more than the
\* empty cells of the board the search was called on
C19_DepthBounded ==
    /\ callee # "none" =>
           Count(scratch, "") = Count(searchArgs.board, "") - Len(callStack)
    /\ ActiveCalls - 1 <= Count(searchArgs.board, "")
    /\ ActiveCalls - 1 <= 9

\* C19: every call of minimax returns, each recursive call being made on a
\* board with exactly one more mark than its caller's, so that the depth of
\* the recursion never exceeds the number of empty cells of the board the
\* search was called on.
C19_SearchTerminates == []C19_DepthBounded /\ <>(searchReturn.returned)

\* the recursion is at its deepest: an invocation is being entered on a full
\* board, below as many invocations as the board of the search had empty
\* cells
C19_Witness ==
    /\ callee # "none"
    /\ Len(callStack) = MaxSearchEmpty
    /\ Count(searchArgs.board, "") = MaxSearchEmpty
    /\ Count(scratch, "") = 0
====
